---- MODULE Spec2Model ----
(***************************************************************************)
(* Model of the process-identity and container-scoping core of ebpH        *)
(* (src/ebph/utils.py): the /proc readers, the container-id heuristic,      *)
(* the per-process container context and the profile-key calculators.      *)
(*                                                                         *)
(* Conventions.  A Python str is a sequence of one-character strings.      *)
(* An Optional value is None (the empty tuple) or Some(v) (a one-element   *)
(* tuple).  The outcome of an OS call or of a query is either              *)
(* Returned(v) or Raised(e).  A Python int that must keep all its bits     *)
(* (st_dev, st_ino, a profile key) is the set of positions of its one      *)
(* bits; namespace inodes, which are only parsed, compared and printed,    *)
(* are naturals.                                                           *)
(***************************************************************************)
EXTENDS Naturals, Sequences, FiniteSets, TLC

VARIABLES
    pc,               \* where the caller stands in the query it is running
    ns_link,          \* pid -> outcome of os.readlink('/proc/<pid>/ns/cgroup')
    cgroup_file,      \* pid -> outcome of reading '/proc/<pid>/cgroup'
    stat_result,      \* outcome of os.stat(fpath)
    cgroup_path,      \* Optional[str]: argument / local of the query
    cgroup_ns_inode,  \* Optional[int]: argument / local of the query
    container_id,     \* Optional[str]: argument / result of the query
    parts,            \* the tuples handed to two calls of hash_to_u64
    attempted,        \* the /proc reads process_container_context has made, in order
    ret               \* query -> its outcome, NotCalled before it is made

vars == <<pc, ns_link, cgroup_file, stat_result, cgroup_path, cgroup_ns_inode,
          container_id, parts, attempted, ret>>

(***************************************************************************)
(* Values                                                                  *)
(***************************************************************************)
None == <<>>
Some(v) == <<v>>
Truthy(o) == o # None /\ o[1] # <<>>

Returned(v) == [val |-> v]
Raised(e) == [exc |-> e]
OSError == Raised("OSError")
IsRaised(o) == "exc" \in DOMAIN o

\* the queries of the core, and the outcome of one that has not been made
Queries ==
    {"read_cgroup_namespace_inode", "read_cgroup_path", "process_container_context",
     "calculate_profile_key", "calculate_scoped_profile_key", "hash_to_u64"}
NotCalled == [pending |-> TRUE]
Called(o) == "pending" \notin DOMAIN o
NoReturns == [q \in Queries |-> NotCalled]

InitPid == 1
TargetPid == 4242
Pids == {InitPid, TargetPid}

(***************************************************************************)
(* Characters                                                              *)
(***************************************************************************)
UpperLetters == <<"A", "B", "C", "D", "E", "F", "G", "H", "I", "J", "K", "L", "M",
                  "N", "O", "P", "Q", "R", "S", "T", "U", "V", "W", "X", "Y", "Z">>
LowerLetters == <<"a", "b", "c", "d", "e", "f", "g", "h", "i", "j", "k", "l", "m",
                  "n", "o", "p", "q", "r", "s", "t", "u", "v", "w", "x", "y", "z">>
DecimalDigits == <<"0", "1", "2", "3", "4", "5", "6", "7", "8", "9">>

\* str.lower() on one character
LowerChar(c) ==
    IF \E k \in 1..Len(UpperLetters) : UpperLetters[k] = c
    THEN LowerLetters[CHOOSE k \in 1..Len(UpperLetters) : UpperLetters[k] = c]
    ELSE c

\* str.lower()
Lower(s) == [k \in 1..Len(s) |-> LowerChar(s[k])]

\* str.replace(a, b) for one-character a and b
Replace(s, a, b) == [k \in 1..Len(s) |-> IF s[k] = a THEN b ELSE s[k]]

IsDigit(c) == \E k \in 1..Len(DecimalDigits) : DecimalDigits[k] = c

\* [0-9a-f] under re.IGNORECASE
IsHexDigit(c) == IsDigit(c) \/ LowerChar(c) \in {"a", "b", "c", "d", "e", "f"}

\* [0-9a-f-] under re.IGNORECASE
IsPodIdChar(c) == IsHexDigit(c) \/ c = "-"

(***************************************************************************)
(* Decimal text of a natural (the f-string of line 151) and int() of a     *)
(* run of digits (line 119)                                                *)
(***************************************************************************)
RECURSIVE NatStr(_)
NatStr(n) ==
    IF n < 10 THEN <<DecimalDigits[n + 1]>>
    ELSE NatStr(n \div 10) \o <<DecimalDigits[(n % 10) + 1]>>

DigitValue(c) == (CHOOSE k \in 1..Len(DecimalDigits) : DecimalDigits[k] = c) - 1

RECURSIVE ParseInt(_)
ParseInt(ds) ==
    IF ds = <<>> THEN 0
    ELSE 10 * ParseInt(SubSeq(ds, 1, Len(ds) - 1)) + DigitValue(ds[Len(ds)])

(***************************************************************************)
(* read_cgroup_namespace_inode                                             *)
(***************************************************************************)
NsLinkPrefix == <<"c", "g", "r", "o", "u", "p", ":", "[">>

\* length of the run of digits of s that starts at position i
RECURSIVE DigitRunLen(_, _)
DigitRunLen(s, i) ==
    IF i <= Len(s) /\ IsDigit(s[i]) THEN 1 + DigitRunLen(s, i + 1) ELSE 0

\* re.match(r'cgroup:\[(\d+)\]', link): group 1, or None
MatchNsLink(link) ==
    LET p == Len(NsLinkPrefix)
        n == DigitRunLen(link, p + 1)
    IN  IF /\ Len(link) >= p
           /\ SubSeq(link, 1, p) = NsLinkPrefix
           /\ n >= 1
           /\ p + n + 1 <= Len(link)
           /\ link[p + n + 1] = "]"
        THEN Some(SubSeq(link, p + 1, p + n))
        ELSE None

\* read_cgroup_namespace_inode(pid) against the links the OS holds
ReadCgroupNamespaceInode(links, pid) ==
    IF IsRaised(links[pid]) THEN None
    ELSE LET m == MatchNsLink(links[pid].val)
         IN  IF m = None THEN None ELSE Some(ParseInt(m[1]))

(***************************************************************************)
(* _read_proc_file and read_cgroup_path                                    *)
(***************************************************************************)
\* lines 103-108: the text of the file, or None when open() or read() fails
ReadProcFile(files, pid) ==
    IF IsRaised(files[pid]) THEN None ELSE Some(files[pid].val)

\* the line boundaries of str.splitlines() that the modelled texts can hold
LineBreaks == {"\n", "\r"}

\* the characters str.strip() removes, among those the modelled texts can hold
Whitespace == {" ", "\t", "\n", "\r"}

\* position of the first line boundary of s at or after i, 0 when there is none
RECURSIVE FirstBreak(_, _)
FirstBreak(s, i) ==
    IF i > Len(s) THEN 0
    ELSE IF s[i] \in LineBreaks THEN i
         ELSE FirstBreak(s, i + 1)

\* str.splitlines(): "\r\n" is one boundary, a final boundary opens no line
RECURSIVE SplitLines(_)
SplitLines(s) ==
    IF s = <<>> THEN <<>>
    ELSE LET b == FirstBreak(s, 1)
         IN  IF b = 0 THEN <<s>>
             ELSE LET skip == IF s[b] = "\r" /\ b < Len(s) /\ s[b + 1] = "\n"
                              THEN b + 1 ELSE b
                  IN  <<SubSeq(s, 1, b - 1)>> \o SplitLines(SubSeq(s, skip + 1, Len(s)))

\* position of the first sep of s at or after i, 0 when there is none
RECURSIVE FirstSep(_, _, _)
FirstSep(s, sep, i) ==
    IF i > Len(s) THEN 0
    ELSE IF s[i] = sep THEN i
         ELSE FirstSep(s, sep, i + 1)

\* str.split(sep, maxsplit) for a one-character sep
RECURSIVE Split(_, _, _)
Split(s, sep, maxsplit) ==
    LET k == FirstSep(s, sep, 1)
    IN  IF maxsplit = 0 \/ k = 0 THEN <<s>>
        ELSE <<SubSeq(s, 1, k - 1)>> \o Split(SubSeq(s, k + 1, Len(s)), sep, maxsplit - 1)

\* str.strip()
RECURSIVE Strip(_)
Strip(s) ==
    IF s = <<>> THEN s
    ELSE IF s[1] \in Whitespace THEN Strip(Tail(s))
    ELSE IF s[Len(s)] \in Whitespace THEN Strip(SubSeq(s, 1, Len(s) - 1))
    ELSE s

\* a line split on every colon
LineFieldsSplitOnEveryColon(line) == Split(line, ":", Len(line))

\* line 127: line.split(':', 2)
LineFields(line) == Split(line, ":", 2)

\* lines 126-133: the loop over the lines, from line k on
RECURSIVE ScanLines(_, _)
ScanLines(lines, k) ==
    IF k > Len(lines) THEN None
    ELSE LET fields == LineFields(lines[k])
         IN  IF Len(fields) # 3 THEN ScanLines(lines, k + 1)
             ELSE IF Strip(fields[3]) # <<>> THEN Some(Strip(fields[3]))
             ELSE ScanLines(lines, k + 1)

read_cgroup_path(files, pid) ==
    LET content == ReadProcFile(files, pid)
    IN  IF ~Truthy(content) THEN None
        ELSE ScanLines(SplitLines(content[1]), 1)

(***************************************************************************)
(* derive_container_id                                                     *)
(***************************************************************************)
\* a pattern that tries its shortest alternative first
HexAlternativesShortestFirst == <<12, 32, 64>>

\* the alternatives of the pattern of line 138, in the order they are tried
HexAlternatives == <<64, 32, 12>>

HexRunAt(s, i, n) ==
    i + n - 1 <= Len(s) /\ \A k \in i..(i + n - 1) : IsHexDigit(s[k])

\* length of the match of the pattern at position i, 0 when it does not match
HexMatchLenAt(s, i) ==
    IF \E a \in 1..Len(HexAlternatives) : HexRunAt(s, i, HexAlternatives[a])
    THEN LET a == CHOOSE b \in 1..Len(HexAlternatives) :
                     /\ HexRunAt(s, i, HexAlternatives[b])
                     /\ \A c \in 1..(b - 1) : ~HexRunAt(s, i, HexAlternatives[c])
         IN  HexAlternatives[a]
    ELSE 0

\* re.findall of line 138 from position i on: non-overlapping, left to right
RECURSIVE FindAllHex(_, _)
FindAllHex(s, i) ==
    IF i > Len(s) THEN <<>>
    ELSE LET n == HexMatchLenAt(s, i)
         IN  IF n = 0 THEN FindAllHex(s, i + 1)
             ELSE <<SubSeq(s, i, i + n - 1)>> \o FindAllHex(s, i + n)

PodIdMin == 32
PodIdMax == 36

\* length of the run of [0-9a-f-] at position i, as far as the greedy {32,36} takes it
RECURSIVE PodRunLen(_, _, _)
PodRunLen(s, i, taken) ==
    IF taken < PodIdMax /\ i <= Len(s) /\ IsPodIdChar(s[i])
    THEN PodRunLen(s, i + 1, taken + 1)
    ELSE taken

\* re.search(r'pod([0-9a-f-]{32,36})', s, IGNORECASE) from position i on: group 1, or None
RECURSIVE KubeSearch(_, _)
KubeSearch(s, i) ==
    IF i + 2 > Len(s) THEN None
    ELSE IF /\ Lower(SubSeq(s, i, i + 2)) = <<"p", "o", "d">>
            /\ PodRunLen(s, i + 3, 0) >= PodIdMin
         THEN Some(SubSeq(s, i + 3, i + 2 + PodRunLen(s, i + 3, 0)))
         ELSE KubeSearch(s, i + 1)

\* s.rsplit('/', 1)[-1]
RECURSIVE LastSegment(_, _)
LastSegment(s, i) ==
    IF i = 0 THEN s
    ELSE IF s[i] = "/" THEN SubSeq(s, i + 1, Len(s))
         ELSE LastSegment(s, i - 1)

\* an exclusion list that forgets init.scope
ExcludedSuffixesWithoutInitScope ==
    { <<>>, <<"/">>,
      <<"u", "s", "e", "r", ".", "s", "l", "i", "c", "e">>,
      <<"s", "y", "s", "t", "e", "m", ".", "s", "l", "i", "c", "e">> }

\* the tuple of line 147
ExcludedSuffixes ==
    { <<>>, <<"/">>,
      <<"u", "s", "e", "r", ".", "s", "l", "i", "c", "e">>,
      <<"s", "y", "s", "t", "e", "m", ".", "s", "l", "i", "c", "e">>,
      <<"i", "n", "i", "t", ".", "s", "c", "o", "p", "e">> }

SuffixAccepted(suffix) == suffix # <<>> /\ suffix \notin ExcludedSuffixes

CgroupNsPrefix == <<"c", "g", "r", "o", "u", "p", "n", "s", "-">>

\* a namespace-inode step that never compares with pid 1
NsInodeStepWithoutInitCheck(ns_inode, links) ==
    IF ns_inode # None /\ ns_inode[1] # 0
    THEN Some(CgroupNsPrefix \o NatStr(ns_inode[1]))
    ELSE None

\* lines 150-153: the namespace-inode step
NsInodeStep(ns_inode, links) ==
    IF /\ ns_inode # None
       /\ ns_inode[1] # 0
       /\ ns_inode # ReadCgroupNamespaceInode(links, InitPid)
    THEN Some(CgroupNsPrefix \o NatStr(ns_inode[1]))
    ELSE None

\* lines 137-148: the steps that read the cgroup path; None when none decides
PathSteps(path) ==
    LET matches == FindAllHex(path, 1)
        kube_match == KubeSearch(path, 1)
        suffix == LastSegment(path, Len(path))
    IN  IF matches # <<>> THEN Some(Lower(matches[Len(matches)]))
        ELSE IF kube_match # None THEN Some(Lower(Replace(kube_match[1], "_", "-")))
        ELSE IF SuffixAccepted(suffix) THEN Some(suffix)
        ELSE None

derive_container_id(path, ns_inode, links) ==
    IF Truthy(path) /\ PathSteps(path[1]) # None
    THEN PathSteps(path[1])
    ELSE NsInodeStep(ns_inode, links)

(***************************************************************************)
(* Integers that keep all their bits.  A non-negative Python int is        *)
(* IntOf(b), b the set of the positions of its one bits: Python ints are   *)
(* unbounded, so a shift never drops a bit.                                *)
(***************************************************************************)
IntOf(b) == [bits |-> b]

\* x << n
ShiftLeft(x, n) == IntOf({b + n : b \in x.bits})

\* x | y
BitOr(x, y) == IntOf(x.bits \cup y.bits)

\* long division by ten, high bit first: the bits of b below position p are
\* still to be read, r is the remainder and q the quotient of the bits read so far
RECURSIVE DivTen(_, _, _, _)
DivTen(b, p, r, q) ==
    IF p = 0 THEN [q |-> q, r |-> r]
    ELSE LET r2 == 2 * r + (IF (p - 1) \in b THEN 1 ELSE 0)
         IN  IF r2 >= 10 THEN DivTen(b, p - 1, r2 - 10, q \cup {p - 1})
             ELSE DivTen(b, p - 1, r2, q)

\* the decimal digits of the integer of bits b, behind which the digits in tail follow
RECURSIVE DecimalDigitsOf(_, _)
DecimalDigitsOf(b, tail) ==
    LET top == CHOOSE t \in b : \A u \in b : u <= t
        d == DivTen(b, top + 1, 0, {})
        digits == <<DecimalDigits[d.r + 1]>> \o tail
    IN  IF d.q = {} THEN digits ELSE DecimalDigitsOf(d.q, digits)

\* str(x) for a non-negative int
IntStr(x) == IF x.bits = {} THEN <<"0">> ELSE DecimalDigitsOf(x.bits, <<>>)

(***************************************************************************)
(* hash_to_u64                                                             *)
(***************************************************************************)
\* the character U+0000, which a Python str may hold
NulChar == "NUL"
\* the characters U+0022, U+005C and U+0060
DoubleQuoteChar == "QUOTE"
BackslashChar == "BACKSLASH"
BacktickChar == "BACKTICK"

\* the printable ASCII characters, from U+0020 on, in code-point order
PrintableAscii ==
    <<" ", "!", DoubleQuoteChar, "#", "$", "%", "&", "'", "(", ")", "*", "+", ",", "-", ".", "/",
      "0", "1", "2", "3", "4", "5", "6", "7", "8", "9", ":", ";", "<", "=", ">", "?",
      "@", "A", "B", "C", "D", "E", "F", "G", "H", "I", "J", "K", "L", "M", "N", "O",
      "P", "Q", "R", "S", "T", "U", "V", "W", "X", "Y", "Z", "[", BackslashChar, "]", "^", "_",
      BacktickChar, "a", "b", "c", "d", "e", "f", "g", "h", "i", "j", "k", "l", "m", "n", "o",
      "p", "q", "r", "s", "t", "u", "v", "w", "x", "y", "z", "{", "|", "}", "~">>

\* the one byte of the UTF-8 encoding of an ASCII character
Utf8Byte(c) ==
    IF c = NulChar THEN 0
    ELSE 31 + (CHOOSE k \in 1..Len(PrintableAscii) : PrintableAscii[k] = c)

\* str.encode('utf-8') of ASCII text
Utf8(s) == [k \in 1..Len(s) |-> Utf8Byte(s[k])]

\* a part of the tuple is a str or an int
StrPart(s) == [str |-> s]
IntPart(x) == [int |-> x]

\* str(part)
PartText(part) == IF "int" \in DOMAIN part THEN IntStr(part.int) ELSE part.str

\* what one pass of the loop feeds the digest, without the separator of line 92
PartBytesUnseparated(part) == Utf8(PartText(part))

\* lines 91-92: what one pass of the loop feeds the digest
PartBytes(part) == Utf8(PartText(part)) \o <<0>>

\* lines 90-92: everything the loop feeds the digest
RECURSIVE DigestInput(_)
DigestInput(ps) ==
    IF ps = <<>> THEN <<>>
    ELSE PartBytes(Head(ps)) \o DigestInput(Tail(ps))

\* lines 89 and 93: the 8-byte BLAKE2b digest of the input read as a big-endian
\* unsigned integer; the digest is kept symbolic, one value for each input
Blake2b8(input) == [blake2b8 |-> input]

hash_to_u64(ps) == Blake2b8(DigestInput(ps))

(***************************************************************************)
(* calculate_profile_key and calculate_scoped_profile_key                  *)
(***************************************************************************)
StatOf(dev, ino) == Returned([st_dev |-> dev, st_ino |-> ino])

\* a calculator that catches the error of os.stat and returns None
calculate_profile_key_swallowing(st) ==
    IF IsRaised(st) THEN Returned(None)
    ELSE Returned(BitOr(ShiftLeft(st.val.st_dev, 32), st.val.st_ino))

\* lines 82-86: os.stat raises through, else st_dev << 32 | st_ino
calculate_profile_key(st) ==
    IF IsRaised(st) THEN st
    ELSE Returned(BitOr(ShiftLeft(st.val.st_dev, 32), st.val.st_ino))

\* a hash input that puts the container id last
ScopedPartsContainerLast(cid, st) ==
    <<IntPart(st.val.st_dev), IntPart(st.val.st_ino), StrPart(cid[1])>>

\* line 100: the tuple handed to hash_to_u64
ScopedParts(cid, st) ==
    <<StrPart(cid[1]), IntPart(st.val.st_dev), IntPart(st.val.st_ino)>>

\* lines 96-100
calculate_scoped_profile_key(st, cid) ==
    IF ~Truthy(cid) THEN calculate_profile_key(st)
    ELSE IF IsRaised(st) THEN st
    ELSE Returned(hash_to_u64(ScopedParts(cid, st)))

(***************************************************************************)
(* process_container_context                                               *)
(***************************************************************************)
\* a record whose container id is derived without the namespace inode
ContextRecordIgnoringNamespace(path, ns_inode, links) ==
    [container_id |-> derive_container_id(path, None, links),
     cgroup_path |-> path,
     cgroup_ns_inode |-> ns_inode]

\* lines 159-164: the derivation and the record returned
ContextRecord(path, ns_inode, links) ==
    [container_id |-> derive_container_id(path, ns_inode, links),
     cgroup_path |-> path,
     cgroup_ns_inode |-> ns_inode]

(***************************************************************************)
(* Inputs of derive_container_id                                           *)
(***************************************************************************)
MaxSegments == 2

Hex16 == <<"a", "b", "c", "d", "e", "f", "0", "1", "2", "3", "4", "5", "6", "7", "8", "9">>
Hex16Upper == <<"A", "B", "C", "D", "E", "F", "0", "1", "2", "3", "4", "5", "6", "7", "8", "9">>
\* "abcdef0123456789abcdef0123456789abcdef0123456789abcdef012345": 60 hex characters
Hex60 == Hex16 \o Hex16 \o Hex16 \o SubSeq(Hex16, 1, 12)
\* a 64-character container id, in mixed case
Hex64Mixed == Hex16Upper \o Hex16 \o Hex16Upper \o Hex16
Hex12Upper == <<"0", "1", "2", "3", "4", "5", "6", "7", "8", "9", "A", "B">>
Hex11 == <<"0", "1", "2", "3", "4", "5", "6", "7", "8", "9", "a">>
\* "AB12cd34-1234-5678-9abc-def012345678"
PodUid == <<"A", "B", "1", "2", "c", "d", "3", "4", "-", "1", "2", "3", "4", "-",
            "5", "6", "7", "8", "-", "9", "a", "b", "c", "-",
            "d", "e", "f", "0", "1", "2", "3", "4", "5", "6", "7", "8">>
Quad == <<"A", "B", "1", "2", "-">>
\* 45 characters of [0-9a-f-] holding no run of 12 hex digits
LongDashed == Quad \o Quad \o Quad \o Quad \o Quad \o Quad \o Quad \o Quad \o Quad
Pod == <<"p", "o", "d">>
Docker == <<"d", "o", "c", "k", "e", "r">>
UserSlice == <<"u", "s", "e", "r", ".", "s", "l", "i", "c", "e">>
SystemSlice == <<"s", "y", "s", "t", "e", "m", ".", "s", "l", "i", "c", "e">>
InitScope == <<"i", "n", "i", "t", ".", "s", "c", "o", "p", "e">>
User1000Slice == <<"u", "s", "e", "r", "-", "1", "0", "0", "0", ".", "s", "l", "i", "c", "e">>

Segments ==
    { <<>>, UserSlice, SystemSlice, InitScope, User1000Slice,
      <<"U", "s", "e", "r", ".", "s", "l", "i", "c", "e">>,
      Hex12Upper, Hex11,
      <<"P", "o", "D">> \o LongDashed,
      Pod \o SubSeq(LongDashed, 1, 31) }

RECURSIVE JoinSegments(_)
JoinSegments(segs) ==
    IF segs = <<>> THEN <<>>
    ELSE <<"/">> \o Head(segs) \o JoinSegments(Tail(segs))

\* "/docker/abcdef0123456789abcdef0123456789abcdef0123456789abcdef012345"
DockerPath60 == JoinSegments(<<Docker, Hex60>>)
\* "/kubepods/besteffort/podAB12cd34-1234-5678-9abc-def012345678/container1"
KubePath ==
    JoinSegments(<< <<"k", "u", "b", "e", "p", "o", "d", "s">>,
                    <<"b", "e", "s", "t", "e", "f", "f", "o", "r", "t">>,
                    Pod \o PodUid,
                    <<"c", "o", "n", "t", "a", "i", "n", "e", "r", "1">> >>)

PathInputs ==
    {None, Some(KubePath), Some(DockerPath60), Some(JoinSegments(<<Docker, Hex64Mixed>>))}
    \cup {Some(seg) : seg \in Segments}
    \cup {Some(JoinSegments(q)) : q \in UNION {[1..k -> Segments] : k \in 1..MaxSegments}}

InodeInputs == {None, Some(0), Some(7), Some(999999)}

LinkInputs ==
    { OSError,
      Returned(NsLinkPrefix \o <<"7", "]">>),
      Returned(NsLinkPrefix \o <<"9", "9", "9", "9", "9", "9", "]">>),
      Returned(NsLinkPrefix \o <<"0", "]">>),
      Returned(<<"c", "g", "r", "o", "u", "p", ":", "7">>) }

NoLinks == [p \in Pids |-> OSError]
NoFiles == [p \in Pids |-> OSError]

(***************************************************************************)
(* SpecDerive: derive_container_id called on each input, with the link of  *)
(* pid 1 as the OS holds it at the call                                    *)
(***************************************************************************)
InitDerive ==
    /\ pc = "call"
    /\ cgroup_path \in PathInputs
    /\ cgroup_ns_inode \in InodeInputs
    /\ \E l \in LinkInputs : ns_link = [NoLinks EXCEPT ![InitPid] = l]
    /\ cgroup_file = NoFiles
    /\ stat_result = OSError
    /\ container_id = None
    /\ parts = <<>>
    /\ attempted = <<>>
    /\ ret = NoReturns

DeriveContainerId ==
    /\ pc = "call"
    /\ container_id' = derive_container_id(cgroup_path, cgroup_ns_inode, ns_link)
    /\ pc' = "ret"
    /\ UNCHANGED <<ns_link, cgroup_file, stat_result, cgroup_path, cgroup_ns_inode,
                   parts, attempted, ret>>

NextDerive == DeriveContainerId

SpecDerive == InitDerive /\ [][NextDerive]_vars

(***************************************************************************)
(* Properties of derive_container_id, stated on the text of the path       *)
(***************************************************************************)
HexDigitChars ==
    {"0", "1", "2", "3", "4", "5", "6", "7", "8", "9",
     "a", "b", "c", "d", "e", "f", "A", "B", "C", "D", "E", "F"}

\* s holds 12 hex digits in a row (so one of the 64/32/12 alternatives matches somewhere)
HasHexRun(s) ==
    \E i \in 1..Len(s) :
        i + 11 <= Len(s) /\ \A k \in i..(i + 11) : s[k] \in HexDigitChars

\* s holds "pod", in any case, followed by 32 characters that are hex digits or hyphens
HasPodMarker(s) ==
    \E i \in 1..Len(s) :
        /\ i + 34 <= Len(s)
        /\ s[i] \in {"p", "P"} /\ s[i + 1] \in {"o", "O"} /\ s[i + 2] \in {"d", "D"}
        /\ \A k \in (i + 3)..(i + 34) : s[k] \in HexDigitChars \cup {"-"}

\* seg is what follows the last '/' of s (all of s when s holds none)
IsFinalSegment(s, seg) ==
    \E j \in 0..Len(s) :
        /\ j = 0 \/ s[j] = "/"
        /\ \A k \in (j + 1)..Len(s) : s[k] # "/"
        /\ seg = SubSeq(s, j + 1, Len(s))

\* steps 1-3 decide nothing for this path
HostScopedPath(p) ==
    \/ p = None
    \/ p[1] = <<>>
    \/ /\ ~HasHexRun(p[1])
       /\ ~HasPodMarker(p[1])
       /\ \E seg \in {<<>>, UserSlice, SystemSlice, InitScope} : IsFinalSegment(p[1], seg)

IsDecimalOf(d, n) ==
    /\ d # <<>>
    /\ \A k \in 1..Len(d) : d[k] \in {"0", "1", "2", "3", "4", "5", "6", "7", "8", "9"}
    /\ Len(d) > 1 => d[1] # "0"
    /\ ParseInt(d) = n

IsCgroupNsId(id, n) ==
    /\ id # None
    /\ Len(id[1]) > 9
    /\ SubSeq(id[1], 1, 9) = <<"c", "g", "r", "o", "u", "p", "n", "s", "-">>
    /\ IsDecimalOf(SubSeq(id[1], 10, Len(id[1])), n)
    /\ n = 999999 =>
         id[1] = <<"c", "g", "r", "o", "u", "p", "n", "s", "-", "9", "9", "9", "9", "9", "9">>

DerivedFrom(p) == pc = "ret" /\ cgroup_path = p

\* C1 as stated: for "/docker/abcdef0123456789abcdef0123456789abcdef0123456789abcdef012345"
\* and no namespace inode, derive_container_id returns the whole hexadecimal
\* identifier that follows "/docker/", lower-cased, not a shorter sub-run of it.
C1_WholeIdentifier ==
    (DerivedFrom(Some(DockerPath60)) /\ cgroup_ns_inode = None)
        => container_id = Some(Hex60)

\* C1 amended: the identifier of that path is 60 hex characters long, so the
\* pattern matches it as runs of 32, 12 and 12 characters and the result is the
\* last of them, "6789abcdef01"; an identifier of exactly 64 hex characters is
\* returned whole, lower-cased.
C1_LastRunOfSixty ==
    /\ (DerivedFrom(Some(DockerPath60)) /\ cgroup_ns_inode = None)
          => container_id = Some(<<"6", "7", "8", "9", "a", "b", "c", "d", "e", "f", "0", "1">>)
    /\ (DerivedFrom(Some(JoinSegments(<<Docker, Hex64Mixed>>))) /\ cgroup_ns_inode = None)
          => container_id = Some(Hex16 \o Hex16 \o Hex16 \o Hex16)

C1_Witness ==
    /\ DerivedFrom(Some(DockerPath60))
    /\ cgroup_ns_inode = None
    /\ container_id # None

\* C2 as stated: for "/kubepods/besteffort/podAB12cd34-1234-5678-9abc-def012345678/container1"
\* and no namespace inode, derive_container_id returns the full pod identifier
\* "ab12cd34-1234-5678-9abc-def012345678".
C2_FullPodIdentifier ==
    (DerivedFrom(Some(KubePath)) /\ cgroup_ns_inode = None)
        => container_id = Some(<<"a", "b", "1", "2", "c", "d", "3", "4", "-",
                                 "1", "2", "3", "4", "-", "5", "6", "7", "8", "-",
                                 "9", "a", "b", "c", "-",
                                 "d", "e", "f", "0", "1", "2", "3", "4", "5", "6", "7", "8">>)

\* C6 as stated: when steps 1-3 decide nothing, any present namespace inode n
\* that differs from the inode read for pid 1 at the call (unreadable included)
\* gives "cgroupns-" followed by n in decimal, and n equal to it gives absent.
C6_AnyPresentInode ==
    (pc = "ret" /\ HostScopedPath(cgroup_path) /\ cgroup_ns_inode # None)
        => IF cgroup_ns_inode # ReadCgroupNamespaceInode(ns_link, InitPid)
           THEN IsCgroupNsId(container_id, cgroup_ns_inode[1])
           ELSE container_id = None

\* C6 amended: the same for every present inode n other than 0; the inode 0
\* counts as absent and gives absent whatever pid 1's inode is.
C6_NonZeroInode ==
    (pc = "ret" /\ HostScopedPath(cgroup_path) /\ cgroup_ns_inode # None)
        => IF /\ cgroup_ns_inode[1] # 0
              /\ cgroup_ns_inode # ReadCgroupNamespaceInode(ns_link, InitPid)
           THEN IsCgroupNsId(container_id, cgroup_ns_inode[1])
           ELSE container_id = None

C6_Witness ==
    /\ DerivedFrom(None)
    /\ cgroup_ns_inode = Some(999999)
    /\ ReadCgroupNamespaceInode(ns_link, InitPid) = Some(7)
    /\ container_id # None

MaxContentLen == 6

ContentChars == {":", "a", " ", "\n", "\r"}

ContentInputs ==
    {OSError} \cup
    {Returned(t) : t \in UNION {[1..n -> ContentChars] : n \in 0..MaxContentLen}}

InitCgroup ==
    /\ pc = "call"
    /\ \E c \in ContentInputs : cgroup_file = [NoFiles EXCEPT ![TargetPid] = c]
    /\ ns_link = NoLinks
    /\ stat_result = OSError
    /\ cgroup_path = None
    /\ cgroup_ns_inode = None
    /\ container_id = None
    /\ parts = <<>>
    /\ attempted = <<>>
    /\ ret = NoReturns

ReadCgroupPath ==
    /\ pc = "call"
    /\ cgroup_path' = read_cgroup_path(cgroup_file, TargetPid)
    /\ pc' = "ret"
    /\ UNCHANGED <<ns_link, cgroup_file, stat_result, cgroup_ns_inode, container_id,
                   parts, attempted, ret>>

NextCgroup == ReadCgroupPath

SpecCgroup == InitCgroup /\ [][NextCgroup]_vars

(***************************************************************************)
(* Properties of read_cgroup_path, stated on the positions of the text     *)
(***************************************************************************)
\* c[a..b] lies between two line boundaries (or the ends of c) and holds none
IsLineSpan(c, a, b) ==
    /\ a = 1 \/ c[a - 1] \in {"\n", "\r"}
    /\ b = Len(c) \/ c[b + 1] \in {"\n", "\r"}
    /\ \A k \in a..b : c[k] \notin {"\n", "\r"}

ColonsIn(c, a, b) == {k \in a..b : c[k] = ":"}

\* the position of the second colon of c[a..b]
SecondColon(c, a, b) ==
    CHOOSE k \in ColonsIn(c, a, b) : Cardinality(ColonsIn(c, a, k)) = 2

\* the positions of the path field of c[a..b] that hold no blank
PathFieldInk(c, a, b) ==
    {k \in (SecondColon(c, a, b) + 1)..b : c[k] \notin {" ", "\t"}}

\* c[a..b] is a line with three fields whose path field is not blank
IsUsableLine(c, a, b) ==
    /\ IsLineSpan(c, a, b)
    /\ Cardinality(ColonsIn(c, a, b)) >= 2
    /\ PathFieldInk(c, a, b) # {}

UsableLines(c) ==
    {ab \in (1..Len(c)) \X (1..Len(c)) : IsUsableLine(c, ab[1], ab[2])}

Min(S) == CHOOSE x \in S : \A y \in S : x <= y
Max(S) == CHOOSE x \in S : \A y \in S : x >= y

\* the trimmed path field of the first usable line of c
FirstUsablePath(c) ==
    LET ab == CHOOSE u \in UsableLines(c) : \A v \in UsableLines(c) : u[1] <= v[1]
        ink == PathFieldInk(c, ab[1], ab[2])
    IN  SubSeq(c, Min(ink), Max(ink))

MaxParts == 2

PartInputs ==
    { StrPart(<<"a">>), StrPart(<<"b">>), StrPart(<<"c">>),
      StrPart(<<"a", "b">>), StrPart(<<"b", "c">>),
      StrPart(<<"a", NulChar, "b">>),
      StrPart(<<"1">>), IntPart(IntOf({0})) }

TupleInputs == UNION {[1..n -> PartInputs] : n \in 0..MaxParts}

InitHash ==
    /\ pc = "call"
    /\ parts \in TupleInputs \X TupleInputs
    /\ ns_link = NoLinks
    /\ cgroup_file = NoFiles
    /\ stat_result = OSError
    /\ cgroup_path = None
    /\ cgroup_ns_inode = None
    /\ container_id = None
    /\ attempted = <<>>
    /\ ret = NoReturns

HashToU64 ==
    /\ pc = "call"
    /\ ret' = [ret EXCEPT !["hash_to_u64"] =
                  <<Returned(hash_to_u64(parts[1])), Returned(hash_to_u64(parts[2]))>>]
    /\ pc' = "ret"
    /\ UNCHANGED <<ns_link, cgroup_file, stat_result, cgroup_path, cgroup_ns_inode,
                   container_id, parts, attempted>>

NextHash == HashToU64

SpecHash == InitHash /\ [][NextHash]_vars

SameTuple(p, q) == p = q
TextsOf(p) == [k \in 1..Len(p) |-> PartText(p[k])]
HoldsNul(p) == \E k \in 1..Len(p) : \E j \in 1..Len(PartText(p[k])) : PartText(p[k])[j] = NulChar

\* what the two calls fed the digest
FedFirst == ret["hash_to_u64"][1].val.blake2b8
FedSecond == ret["hash_to_u64"][2].val.blake2b8

\* C8 as stated: the bytes fed to the digest differ for any two different
\* ordered tuples of string-or-integer parts.
C8_AnyTwoTuplesDiffer ==
    (pc = "ret" /\ ~SameTuple(parts[1], parts[2])) => FedFirst # FedSecond

\* C8 amended: the bytes fed to the digest differ for any two tuples whose
\* sequences of part texts (str(part)) differ and hold no null character, so
\* moving a boundary between such parts, reordering them or changing the text of
\* one always changes the input; identical tuples give the identical input and
\* output.  An integer and its decimal text, or a null character inside a
\* string and a part boundary, give the same input.
C8_TextsWithoutNulDiffer ==
    pc = "ret" =>
        /\ (TextsOf(parts[1]) # TextsOf(parts[2]) /\ ~HoldsNul(parts[1]) /\ ~HoldsNul(parts[2]))
              => FedFirst # FedSecond
        /\ SameTuple(parts[1], parts[2])
              => FedFirst = FedSecond /\ ret["hash_to_u64"][1] = ret["hash_to_u64"][2]
        /\ parts[1] = <<StrPart(<<"a", "b">>), StrPart(<<"c">>)>>
              => FedFirst = <<97, 98, 0, 99, 0>>

\* ("ab", "c") against ("a", "bc")
C8_Witness ==
    /\ pc = "ret"
    /\ parts[1] = <<StrPart(<<"a", "b">>), StrPart(<<"c">>)>>
    /\ parts[2] = <<StrPart(<<"a">>), StrPart(<<"b", "c">>)>>
    /\ FedFirst # FedSecond

(***************************************************************************)
(* SpecKey: the two key calculators called on one file state               *)
(***************************************************************************)
DevInputs == {IntOf(b) : b \in SUBSET {0, 8, 19, 31, 32}}
InoInputs == {IntOf(b) : b \in SUBSET {0, 1, 31, 32, 63}}

StatInputs ==
    {Raised("FileNotFoundError")} \cup {StatOf(d, i) : d \in DevInputs, i \in InoInputs}

ContainerIdInputs == {None, Some(<<>>), Some(<<"c", "1">>)}

InitKey ==
    /\ pc = "idle"
    /\ stat_result \in StatInputs
    /\ container_id \in ContainerIdInputs
    /\ ns_link = NoLinks
    /\ cgroup_file = NoFiles
    /\ cgroup_path = None
    /\ cgroup_ns_inode = None
    /\ parts = <<>>
    /\ attempted = <<>>
    /\ ret = NoReturns

CalculateProfileKey ==
    /\ pc = "idle"
    /\ ~Called(ret["calculate_profile_key"])
    /\ ret' = [ret EXCEPT !["calculate_profile_key"] = calculate_profile_key(stat_result)]
    /\ UNCHANGED <<pc, ns_link, cgroup_file, stat_result, cgroup_path, cgroup_ns_inode,
                   container_id, parts, attempted>>

CalculateScopedProfileKey ==
    /\ pc = "idle"
    /\ ~Called(ret["calculate_scoped_profile_key"])
    /\ ret' = [ret EXCEPT !["calculate_scoped_profile_key"] =
                  calculate_scoped_profile_key(stat_result, container_id)]
    /\ UNCHANGED <<pc, ns_link, cgroup_file, stat_result, cgroup_path, cgroup_ns_inode,
                   container_id, parts, attempted>>

NextKey == CalculateProfileKey \/ CalculateScopedProfileKey

SpecKey == InitKey /\ [][NextKey]_vars

\* both calculators have returned for a file whose stat succeeds
BothKeysReturned ==
    /\ ~IsRaised(stat_result)
    /\ Called(ret["calculate_profile_key"])
    /\ Called(ret["calculate_scoped_profile_key"])

\* the bytes of the text of (container_id, device, inode), a null byte after each
TripleBytes ==
    Utf8(container_id[1]) \o <<0>> \o Utf8(IntStr(stat_result.val.st_dev)) \o <<0>>
        \o Utf8(IntStr(stat_result.val.st_ino)) \o <<0>>

\* C4 as stated: for a path whose stat succeeds, the scoped key with the
\* container id absent is the value calculate_profile_key returns, and with the
\* container id present it is hash_to_u64((container_id, device, inode)).
C4_PresentMeansHashed ==
    BothKeysReturned =>
        IF container_id = None
        THEN ret["calculate_scoped_profile_key"] = ret["calculate_profile_key"]
        ELSE ret["calculate_scoped_profile_key"] = Returned(Blake2b8(TripleBytes))

\* C4 amended: the scoped key is the value calculate_profile_key returns when
\* the container id is absent or the empty string, and
\* hash_to_u64((container_id, device, inode)) when it is a non-empty string.
C4_NonEmptyMeansHashed ==
    BothKeysReturned =>
        IF container_id = None \/ container_id = Some(<<>>)
        THEN ret["calculate_scoped_profile_key"] = ret["calculate_profile_key"]
        ELSE /\ ret["calculate_scoped_profile_key"] = Returned(Blake2b8(TripleBytes))
             /\ (stat_result = StatOf(IntOf({0}), IntOf({1})) /\ container_id = Some(<<"c", "1">>))
                   => ret["calculate_scoped_profile_key"].val.blake2b8 = <<99, 49, 0, 49, 0, 50, 0>>

C4_Witness ==
    /\ BothKeysReturned
    /\ container_id = Some(<<"c", "1">>)
    /\ stat_result = StatOf(IntOf({0}), IntOf({1}))
    /\ ret["calculate_scoped_profile_key"] # ret["calculate_profile_key"]

\* C5: for all device ids d and inode numbers i in the unsigned 64-bit range,
\* calculate_profile_key returns exactly d << 32 | i, and that result is an
\* unsigned 64-bit integer (0 <= key < 2^64).
C5_KeyIsUnsigned64 ==
    (~IsRaised(stat_result) /\ Called(ret["calculate_profile_key"])) =>
        LET key == ret["calculate_profile_key"].val.bits
            d == stat_result.val.st_dev.bits
            i == stat_result.val.st_ino.bits
        IN  /\ key = {b + 32 : b \in d} \cup i
            /\ \A b \in key : b < 64

(***************************************************************************)
(* SpecContext: one caller makes each query of the core once, in any       *)
(* order, against a process that may exit at any moment;                   *)
(* process_container_context takes three steps, and the process may exit   *)
(* before, between or after its reads                                      *)
(***************************************************************************)
CgroupLinePrefix == <<"0", ":", ":">>

TargetLinkInputs ==
    { OSError,
      Returned(NsLinkPrefix \o <<"7", "]">>),
      Returned(NsLinkPrefix \o <<"9", "9", "9", "9", "9", "9", "]">>),
      Returned(<<"c", "g", "r", "o", "u", "p">>) }

InitLinkInputs == {OSError, Returned(NsLinkPrefix \o <<"7", "]">>)}

CgroupFileInputs ==
    { OSError,
      Returned(<<>>),
      Returned(CgroupLinePrefix \o JoinSegments(<<UserSlice>>) \o <<"\n">>),
      Returned(CgroupLinePrefix \o JoinSegments(<<Docker, Hex12Upper>>) \o <<"\n">>),
      Returned(<<"1", ":", "x", ":", "\n">> \o CgroupLinePrefix
                   \o JoinSegments(<<User1000Slice>>) \o <<"\n">>) }

ContextStatInputs ==
    { Raised("FileNotFoundError"), Raised("PermissionError"),
      StatOf(IntOf({0, 11}), IntOf({2, 5})) }

InitContext ==
    /\ pc = "idle"
    /\ \E t \in TargetLinkInputs, i \in InitLinkInputs :
           ns_link = [p \in Pids |-> IF p = InitPid THEN i ELSE t]
    /\ \E c \in CgroupFileInputs : cgroup_file = [NoFiles EXCEPT ![TargetPid] = c]
    /\ stat_result \in ContextStatInputs
    /\ container_id \in {None, Some(<<"c", "1">>)}
    /\ cgroup_path = None
    /\ cgroup_ns_inode = None
    /\ parts = <<>>
    /\ attempted = <<>>
    /\ ret = NoReturns

\* the target process exits: its /proc entries are gone
ProcessExits ==
    /\ ~IsRaised(ns_link[TargetPid]) \/ ~IsRaised(cgroup_file[TargetPid])
    /\ ns_link' = [ns_link EXCEPT ![TargetPid] = OSError]
    /\ cgroup_file' = [cgroup_file EXCEPT ![TargetPid] = OSError]
    /\ UNCHANGED <<pc, stat_result, cgroup_path, cgroup_ns_inode, container_id,
                   parts, attempted, ret>>

ReadCgroupNamespaceInodeQuery ==
    /\ pc = "idle"
    /\ ~Called(ret["read_cgroup_namespace_inode"])
    /\ ret' = [ret EXCEPT !["read_cgroup_namespace_inode"] =
                  Returned(ReadCgroupNamespaceInode(ns_link, TargetPid))]
    /\ UNCHANGED <<pc, ns_link, cgroup_file, stat_result, cgroup_path, cgroup_ns_inode,
                   container_id, parts, attempted>>

ReadCgroupPathQuery ==
    /\ pc = "idle"
    /\ ~Called(ret["read_cgroup_path"])
    /\ ret' = [ret EXCEPT !["read_cgroup_path"] =
                  Returned(read_cgroup_path(cgroup_file, TargetPid))]
    /\ UNCHANGED <<pc, ns_link, cgroup_file, stat_result, cgroup_path, cgroup_ns_inode,
                   container_id, parts, attempted>>

\* line 157
ContextReadNamespaceInode ==
    /\ pc = "idle"
    /\ ~Called(ret["process_container_context"])
    /\ cgroup_ns_inode' = ReadCgroupNamespaceInode(ns_link, TargetPid)
    /\ attempted' = Append(attempted, "ns/cgroup")
    /\ pc' = "context_read_path"
    /\ UNCHANGED <<ns_link, cgroup_file, stat_result, cgroup_path, container_id, parts, ret>>

\* line 158
ContextReadCgroupPath ==
    /\ pc = "context_read_path"
    /\ cgroup_path' = read_cgroup_path(cgroup_file, TargetPid)
    /\ attempted' = Append(attempted, "cgroup")
    /\ pc' = "context_derive"
    /\ UNCHANGED <<ns_link, cgroup_file, stat_result, cgroup_ns_inode, container_id,
                   parts, ret>>

\* lines 159-164
ContextDeriveAndReturn ==
    /\ pc = "context_derive"
    /\ ret' = [ret EXCEPT !["process_container_context"] =
                  Returned(ContextRecord(cgroup_path, cgroup_ns_inode, ns_link))]
    /\ pc' = "idle"
    /\ UNCHANGED <<ns_link, cgroup_file, stat_result, cgroup_path, cgroup_ns_inode,
                   container_id, parts, attempted>>

NextContext ==
    \/ ProcessExits
    \/ ReadCgroupNamespaceInodeQuery
    \/ ReadCgroupPathQuery
    \/ ContextReadNamespaceInode
    \/ ContextReadCgroupPath
    \/ ContextDeriveAndReturn
    \/ CalculateProfileKey
    \/ CalculateScopedProfileKey

SpecContext == InitContext /\ [][NextContext]_vars

Returns(q) == ~Called(ret[q]) /\ Called(ret[q])'

\* C3 as stated: every query of the core degrades an OS-level error to an
\* absent value and never propagates it: none of the five queries raises.
C3_NoQueryRaises ==
    \A q \in Queries : ~IsRaised(ret[q])

\* C3 amended: read_cgroup_namespace_inode, read_cgroup_path and
\* process_container_context return normally, with an absent value for each
\* /proc read that fails; calculate_profile_key and calculate_scoped_profile_key
\* do not catch the error of os.stat, which propagates to their caller.
C3_ReadersDegradeKeysPropagate ==
    [][ /\ Returns("read_cgroup_namespace_inode") =>
              /\ ~IsRaised(ret["read_cgroup_namespace_inode"])'
              /\ IsRaised(ns_link[TargetPid]) =>
                     ret["read_cgroup_namespace_inode"]' = Returned(None)
        /\ Returns("read_cgroup_path") =>
              /\ ~IsRaised(ret["read_cgroup_path"])'
              /\ IsRaised(cgroup_file[TargetPid]) =>
                     ret["read_cgroup_path"]' = Returned(None)
        /\ (pc = "idle" /\ pc' = "context_read_path" /\ IsRaised(ns_link[TargetPid]))
              => cgroup_ns_inode' = None
        /\ (pc = "context_read_path" /\ pc' = "context_derive"
                /\ IsRaised(cgroup_file[TargetPid]))
              => cgroup_path' = None
        /\ Returns("process_container_context") =>
              /\ ~IsRaised(ret["process_container_context"])'
              /\ ret["process_container_context"]'.val.cgroup_path = cgroup_path
              /\ ret["process_container_context"]'.val.cgroup_ns_inode = cgroup_ns_inode
        /\ \A q \in {"calculate_profile_key", "calculate_scoped_profile_key"} :
              Returns(q) => IF IsRaised(stat_result) THEN ret[q]' = stat_result
                                                     ELSE ~IsRaised(ret[q])'
      ]_vars

C3_Witness ==
    /\ IsRaised(stat_result)
    /\ IsRaised(ret["calculate_profile_key"])
    /\ IsRaised(ret["calculate_scoped_profile_key"])
    /\ IsRaised(ns_link[TargetPid])
    /\ ret["read_cgroup_namespace_inode"] = Returned(None)
    /\ ret["read_cgroup_path"] = Returned(None)
    /\ Called(ret["process_container_context"])

\* C9: process_container_context reads the namespace inode, then the cgroup
\* path, then derives, making each read whatever the other returned; whenever
\* the process exits it still returns a record, and the record's container_id
\* is derive_container_id of the record's own cgroup_path and cgroup_ns_inode.
C9_RecordIsSelfConsistent ==
    /\ pc = "context_derive" => attempted = <<"ns/cgroup", "cgroup">>
    /\ Called(ret["process_container_context"]) =>
          /\ ~IsRaised(ret["process_container_context"])
          /\ attempted = <<"ns/cgroup", "cgroup">>
          /\ LET rec == ret["process_container_context"].val
             IN  rec.container_id =
                     derive_container_id(rec.cgroup_path, rec.cgroup_ns_inode, ns_link)

\* the process exited between the two reads: the inode was read, the path was not
C9_Witness ==
    /\ Called(ret["process_container_context"])
    /\ ret["process_container_context"].val.cgroup_ns_inode = Some(999999)
    /\ ret["process_container_context"].val.cgroup_path = None
    /\ ret["process_container_context"].val.container_id # None
    /\ IsRaised(cgroup_file[TargetPid])

====
